---- MODULE Spec2Model ----
(***************************************************************************)
(* The lane-racing game of src/renderer.js (first copy of the file, lines   *)
(* 1-372), with its persistence bridge (src/unnamed/part_000).             *)
(*                                                                         *)
(* Numbers.  The program computes with floats; the model computes with     *)
(* exact integers in scaled units:                                         *)
(*   speed, stripeOffset, enemy y : fifths   (3 is 15, 0.2 is 1)           *)
(*   x of player and enemies      : sixths   (lane centers are k/6)        *)
(*   laneWidth                    : thirds   (innerRoadWidth / 3)          *)
(*   everything else              : as in the source.                      *)
(* Window sizes are drawn so that innerWidth*0.95 and innerHeight*0.9 are  *)
(* integers.  Images and audio are taken as not loaded (the assets are not *)
(* part of the sources), so the fallback sizes of resizeCanvas apply.      *)
(* Lines 374-606 of src/renderer.js hold an earlier copy of the same       *)
(* script, without resizeCanvas; it is not modelled.                       *)
(*                                                                         *)
(* endCalls, setCalls and removed are observers: each operation records in *)
(* them what it invoked, so that a step shows the calls it made.  The      *)
(* fields bornY, bornH, bornSpeed, age and steady of an enemy are          *)
(* observers too.                                                          *)
(*                                                                         *)
(* Specifications.  Spec has every operation over short sessions; the      *)
(* others explore longer sessions under narrower inputs: SpecLong (no      *)
(* keyboard, no resize, to score 9000 and speed 4.6), SpecSession (every   *)
(* operation, no collision, to the first speed increase), SpecInput (a     *)
(* 50 ms clock), SpecCrowd (two obstacles in the pool at once), SpecWindow *)
(* (the fullscreen button, obstacles edge to edge with the player),        *)
(* SpecPrune (several obstacles leaving the road in one tick) and          *)
(* SpecStore (the bridge absent or failing).                               *)
(***************************************************************************)
EXTENDS Integers, Sequences, FiniteSets, TLC

VARIABLES
    running, score, speed, highScore, animationFrameId,   \* renderer.js:11-15
    W, H, laneWidth, roadMargin,                          \* renderer.js:7-8,19-20
    enemyDefaultW, enemyDefaultH,                         \* renderer.js:90-91
    player, enemies, spawnTimer, stripeOffset,            \* renderer.js:119-134
    lastMoveTime,                                         \* renderer.js:137
    pendingFrames,   \* frame callbacks requested and not yet run
    stored,          \* localStorage item 'brick_high': a digit string, <<>> if none
    api,             \* "ok" | "failing" (localStorage throws) | "absent" (no electronAPI)
    now,             \* performance.now(), ms
    started,         \* DOMContentLoaded has run (listeners are registered)
    endCalls,        \* endGame invocations made by the last operation
    setCalls,        \* setHighScore requests made by the last operation
    removed,         \* enemies spliced out of the pool by the last operation
    fullscreen       \* win.isFullScreen() of the main process, main.js:24

vars == << running, score, speed, highScore, animationFrameId, W, H, laneWidth,
           roadMargin, enemyDefaultW, enemyDefaultH, player, enemies, spawnTimer,
           stripeOffset, lastMoveTime, pendingFrames, stored, api, now, started,
           endCalls, setCalls, removed, fullscreen >>

----------------------------------------------------------------------------
(* Program constants *)
lanes == 3
spawnInterval == 90
minMoveInterval == 150
baseSpeed == 15            \* speed = 3, in fifths
scoreStep == 1000          \* score % 1000
offScreenMargin == 100     \* H + 100
centerLane == 1

(* Bounds of the model *)
MaxScore == 282            \* Spec: no tick is taken once score >= MaxScore
MaxLongScore == 9010       \* SpecLong: the same
MaxSessionScore == 1010    \* SpecSession: the same
MaxInputScore == 12        \* SpecInput: the same
MaxCrowdScore == 462       \* SpecCrowd: the same
MaxWindowScore == 322      \* SpecWindow: the same
MaxPruneScore == 560       \* SpecPrune: the same
MaxStoreScore == 282       \* SpecStore: the same
MaxNow == 350              \* the clock stops advancing at MaxNow ms

(* Inputs *)
ClockSteps == {150}
FineClockSteps == {50}
WindowSizes == { <<300, 200>>, <<800, 650>> }   \* <<innerWidth, innerHeight>>
CanvasSizes == { <<480, 640>> }                 \* <<canvas.width, canvas.height>>
Keys == {"ArrowLeft", "D", "x"}
AllKeys == {"ArrowLeft", "a", "A", "ArrowRight", "d", "D", "x"}
SessionKeys == {"ArrowRight", "x"}
CrowdKeys == {"ArrowLeft", "x"}
RandLanes == 0 .. (lanes - 1)                   \* Math.floor(Math.random() * lanes)
RandOffsets == {0, 6}                           \* Math.random() * 200
QuietRandLanes == {0, 2}                        \* draws that never meet the center lane
SessionRandLanes == {0}
QuietRandOffsets == {0}
CrowdRandOffsets == {0, 150}
EdgeRandOffsets == {0, 3}                       \* 3 brings an obstacle edge to edge with the player
CrowdWindowSizes == { <<300, 200>>, <<800, 1300>> }
StoredAtLaunch == { <<>>, <<2, 8, 0>> }
NoDraw == [lane |-> 0, off |-> 0]              \* a tick that draws nothing

Max(a, b) == IF a >= b THEN a ELSE b
Min(a, b) == IF a <= b THEN a ELSE b

(* Math.round(n / d) for n >= 0, d > 0 *)
Round(n, d) == (2 * n + d) \div (2 * d)

----------------------------------------------------------------------------
(* The program state as one record, so that operations are functions.      *)
St ==
    [ running |-> running, score |-> score, speed |-> speed,
      highScore |-> highScore, animationFrameId |-> animationFrameId,
      W |-> W, H |-> H, laneWidth |-> laneWidth, roadMargin |-> roadMargin,
      enemyDefaultW |-> enemyDefaultW, enemyDefaultH |-> enemyDefaultH,
      player |-> player, enemies |-> enemies, spawnTimer |-> spawnTimer,
      stripeOffset |-> stripeOffset, lastMoveTime |-> lastMoveTime,
      pendingFrames |-> pendingFrames, stored |-> stored, api |-> api,
      endCalls |-> 0, setCalls |-> <<>>, removed |-> <<>>,
      fullscreen |-> fullscreen ]

Becomes(r) ==
    /\ running' = r.running /\ score' = r.score /\ speed' = r.speed
    /\ highScore' = r.highScore /\ animationFrameId' = r.animationFrameId
    /\ W' = r.W /\ H' = r.H /\ laneWidth' = r.laneWidth
    /\ roadMargin' = r.roadMargin
    /\ enemyDefaultW' = r.enemyDefaultW /\ enemyDefaultH' = r.enemyDefaultH
    /\ player' = r.player /\ enemies' = r.enemies
    /\ spawnTimer' = r.spawnTimer /\ stripeOffset' = r.stripeOffset
    /\ lastMoveTime' = r.lastMoveTime /\ pendingFrames' = r.pendingFrames
    /\ stored' = r.stored /\ api' = r.api
    /\ endCalls' = r.endCalls /\ setCalls' = r.setCalls /\ removed' = r.removed
    /\ fullscreen' = r.fullscreen

----------------------------------------------------------------------------
(* Persistence bridge, src/unnamed/part_000 *)

RECURSIVE String(_)
String(n) ==
    IF n < 10 THEN << n >> ELSE Append(String(n \div 10), n % 10)

RECURSIVE parseInt(_)
parseInt(raw) ==
    IF raw = <<>> THEN 0
    ELSE 10 * parseInt(SubSeq(raw, 1, Len(raw) - 1)) + raw[Len(raw)]

getHighScore(s) ==
    IF s.api = "failing" THEN 0
    ELSE IF s.stored # <<>> THEN parseInt(s.stored) ELSE 0

setHighScore(s, v) ==
    LET asked == [s EXCEPT !.setCalls = Append(@, v)]
    IN  IF s.api = "failing" THEN asked
        ELSE [asked EXCEPT !.stored = String(v)]

----------------------------------------------------------------------------
(* Geometry *)

(* roadMargin + lane * laneWidth + laneWidth / 2, in sixths *)
laneCenter(s, lane) == 6 * s.roadMargin + 2 * lane * s.laneWidth + s.laneWidth

(* resizeCanvas putting the player back into the center lane *)
resizeCanvasRecenters(s, win) ==
    LET cssW == Max(320, Min((win[1] * 95) \div 100, 1600))
        cssH == Max(240, Min((win[2] * 9) \div 10, 1100))
        rm   == Max(20, Round(cssW * 6, 100))
        lw   == Max(100, cssW - rm * 2)
        ph   == Max(40, Round(cssH * 12, 100))
        pw   == Max(30, Round(ph * 6, 10))
        s1   == [s EXCEPT !.W = cssW, !.H = cssH, !.roadMargin = rm,
                          !.laneWidth = lw,
                          !.enemyDefaultH = ph, !.enemyDefaultW = pw,
                          !.player.h = ph, !.player.w = pw,
                          !.player.lane = centerLane]
    IN  [s1 EXCEPT !.player.x = laneCenter(s1, s1.player.lane),
                   !.player.y = cssH - Round(cssH * 18, 100),
                   !.enemies = [i \in 1 .. Len(s1.enemies) |->
                       [s1.enemies[i] EXCEPT
                           !.x = laneCenter(s1, s1.enemies[i].lane)]]]

resizeCanvas(s, win) ==
    LET cssW == Max(320, Min((win[1] * 95) \div 100, 1600))
        cssH == Max(240, Min((win[2] * 9) \div 10, 1100))
        rm   == Max(20, Round(cssW * 6, 100))
        lw   == Max(100, cssW - rm * 2)
        ph   == Max(40, Round(cssH * 12, 100))
        pw   == Max(30, Round(ph * 6, 10))
        s1   == [s EXCEPT !.W = cssW, !.H = cssH, !.roadMargin = rm,
                          !.laneWidth = lw,
                          !.enemyDefaultH = ph, !.enemyDefaultW = pw,
                          !.player.h = ph, !.player.w = pw]
    IN  [s1 EXCEPT !.player.x = laneCenter(s1, s1.player.lane),
                   !.player.y = cssH - Round(cssH * 18, 100),
                   !.enemies = [i \in 1 .. Len(s1.enemies) |->
                       [s1.enemies[i] EXCEPT
                           !.x = laneCenter(s1, s1.enemies[i].lane)]]]

----------------------------------------------------------------------------
(* Lifecycle *)

(* endGame with `running = false` left out *)
endGameStillRunning(s) ==
    LET s1 == [s EXCEPT !.endCalls = @ + 1]
    IN  IF s1.score > s1.highScore
        THEN LET s2 == [s1 EXCEPT !.highScore = s1.score]
             IN  IF s2.api # "absent" THEN setHighScore(s2, s2.highScore) ELSE s2
        ELSE s1

(* endGame comparing with >= *)
endGameOnEqual(s) ==
    LET s1 == [s EXCEPT !.running = FALSE, !.endCalls = @ + 1]
    IN  IF s1.score >= s1.highScore
        THEN LET s2 == [s1 EXCEPT !.highScore = s1.score]
             IN  IF s2.api # "absent" THEN setHighScore(s2, s2.highScore) ELSE s2
        ELSE s1

(* endGame updating the high score only when the bridge is there *)
endGameNeedsStore(s) ==
    LET s1 == [s EXCEPT !.running = FALSE, !.endCalls = @ + 1]
    IN  IF s1.score > s1.highScore /\ s1.api # "absent"
        THEN setHighScore([s1 EXCEPT !.highScore = s1.score], s1.score)
        ELSE s1

endGame(s) ==
    LET s1 == [s EXCEPT !.running = FALSE, !.endCalls = @ + 1]
    IN  IF s1.score > s1.highScore
        THEN LET s2 == [s1 EXCEPT !.highScore = s1.score]
             IN  IF s2.api # "absent" THEN setHighScore(s2, s2.highScore) ELSE s2
        ELSE s1

(* rnd = [lane |-> Math.floor(Math.random() * lanes), off |-> Math.random() * 200] *)
spawnEnemy(s, rnd) ==
    LET h == s.enemyDefaultH
        y == -(5 * h) - 5 * rnd.off
    IN  [s EXCEPT !.enemies = Append(@,
            [ lane |-> rnd.lane, x |-> laneCenter(s, rnd.lane), y |-> y,
              w |-> s.enemyDefaultW, h |-> h,
              \* observers: where and under what the enemy was spawned, how many
              \* ticks have moved it, and whether H and speed stayed as they were
              bornY |-> y, bornH |-> s.H, bornSpeed |-> s.speed,
              age |-> 0, steady |-> TRUE ])]

(* Math.round(speed / 1.5) in the place of Math.floor *)
scoreIncrementRounded(sp) == (4 * sp + 15) \div 30

(* Math.floor(speed / 1.5) *)
scoreIncrement(sp) == (2 * sp) \div 15

(* enemies.splice(i, 1) *)
Splice(es, i) == SubSeq(es, 1, i - 1) \o SubSeq(es, i + 1, Len(es))

(* the enemy loop removing at y > H, without the margin *)
RECURSIVE moveEnemiesNoMargin(_, _)
moveEnemiesNoMargin(s, i) ==
    IF i < 1 THEN s
    ELSE LET e  == s.enemies[i]
             e1 == [e EXCEPT !.y = @ + s.speed + 5,
                             !.x = laneCenter(s, e.lane),
                             !.age = @ + 1,
                             !.steady = @ /\ s.H = e.bornH /\ s.speed = e.bornSpeed]
             s1 == [s EXCEPT !.enemies[i] = e1]
             s2 == IF e1.y > 5 * s.H
                   THEN [s1 EXCEPT !.enemies = Splice(@, i),
                                   !.removed = Append(@, e1)]
                   ELSE s1
         IN  moveEnemiesNoMargin(s2, i - 1)

(* the enemy loop run forwards, `for (let i = 0; i < enemies.length; i++)`:
   after a splice the next enemy has taken the place i and is passed over *)
RECURSIVE moveEnemiesFrom(_, _)
moveEnemiesFrom(s, i) ==
    IF i > Len(s.enemies) THEN s
    ELSE LET e  == s.enemies[i]
             e1 == [e EXCEPT !.y = @ + s.speed + 5,
                             !.x = laneCenter(s, e.lane),
                             !.age = @ + 1,
                             !.steady = @ /\ s.H = e.bornH /\ s.speed = e.bornSpeed]
             s1 == [s EXCEPT !.enemies[i] = e1]
             s2 == IF e1.y > 5 * (s.H + offScreenMargin)
                   THEN [s1 EXCEPT !.enemies = Splice(@, i),
                                   !.removed = Append(@, e1)]
                   ELSE s1
         IN  moveEnemiesFrom(s2, i + 1)

moveEnemiesForward(s, i) == moveEnemiesFrom(s, 1)

(* the loop `for (let i = enemies.length - 1; i >= 0; i--)`; i is 1-based here *)
RECURSIVE moveEnemies(_, _)
moveEnemies(s, i) ==
    IF i < 1 THEN s
    ELSE LET e  == s.enemies[i]
             e1 == [e EXCEPT !.y = @ + s.speed + 5,
                             !.x = laneCenter(s, e.lane),
                             !.age = @ + 1,
                             !.steady = @ /\ s.H = e.bornH /\ s.speed = e.bornSpeed]
             s1 == [s EXCEPT !.enemies[i] = e1]
             s2 == IF e1.y > 5 * (s.H + offScreenMargin)
                   THEN [s1 EXCEPT !.enemies = Splice(@, i),
                                   !.removed = Append(@, e1)]
                   ELSE s1
         IN  moveEnemies(s2, i - 1)

(* the test with <= and >=: boxes that touch on an edge count *)
OverlapsTouching(p, e) ==
    LET px6  == p.x - 3 * p.w
        ex6  == e.x - 3 * e.w
        py10 == 10 * p.y - 5 * p.h
        ey10 == 2 * e.y - 5 * e.h
    IN  /\ px6 <= ex6 + 6 * e.w
        /\ px6 + 6 * p.w >= ex6
        /\ py10 <= ey10 + 10 * e.h
        /\ py10 + 10 * p.h >= ey10

(* px < ex + e.w && px + player.w > ex && py < ey + e.h && py + player.h > ey *)
Overlaps(p, e) ==
    LET px6  == p.x - 3 * p.w          \* 6 * (player.x - player.w / 2)
        ex6  == e.x - 3 * e.w
        py10 == 10 * p.y - 5 * p.h     \* 10 * (player.y - player.h / 2)
        ey10 == 2 * e.y - 5 * e.h
    IN  /\ px6 < ex6 + 6 * e.w
        /\ px6 + 6 * p.w > ex6
        /\ py10 < ey10 + 10 * e.h
        /\ py10 + 10 * p.h > ey10

(* the collision loop without its break *)
RECURSIVE collisionCheckNoBreak(_, _)
collisionCheckNoBreak(s, i) ==
    IF i > Len(s.enemies) THEN s
    ELSE IF Overlaps(s.player, s.enemies[i])
         THEN collisionCheckNoBreak(endGame(s), i + 1)
    ELSE collisionCheckNoBreak(s, i + 1)

(* the loop `for (const e of enemies)` with its break *)
RECURSIVE collisionCheck(_, _)
collisionCheck(s, i) ==
    IF i > Len(s.enemies) THEN s
    ELSE IF Overlaps(s.player, s.enemies[i]) THEN endGame(s)
    ELSE collisionCheck(s, i + 1)

(* update lowering the speed at a threshold *)
updateBodySlowdown(s, rnd) ==
    LET s1 == [s EXCEPT !.score = @ + scoreIncrement(s.speed)]
        s2 == IF s1.score % scoreStep = 0 THEN [s1 EXCEPT !.speed = @ - 1] ELSE s1
        s3 == [s2 EXCEPT !.player.x = laneCenter(s2, s2.player.lane)]
        s4 == [s3 EXCEPT !.spawnTimer = @ + 1]
        s5 == IF s4.spawnTimer >= spawnInterval
              THEN spawnEnemy([s4 EXCEPT !.spawnTimer = 0], rnd)
              ELSE s4
        s6 == moveEnemies(s5, Len(s5.enemies))
        s7 == collisionCheck(s6, 1)
    IN  [s7 EXCEPT !.stripeOffset = @ + s7.speed]

(* update with the speed check made before the score is increased *)
updateBodySwapped(s, rnd) ==
    LET s1 == IF s.score % scoreStep = 0 THEN [s EXCEPT !.speed = @ + 1] ELSE s
        s2 == [s1 EXCEPT !.score = @ + scoreIncrement(s1.speed)]
        s3 == [s2 EXCEPT !.player.x = laneCenter(s2, s2.player.lane)]
        s4 == [s3 EXCEPT !.spawnTimer = @ + 1]
        s5 == IF s4.spawnTimer >= spawnInterval
              THEN spawnEnemy([s4 EXCEPT !.spawnTimer = 0], rnd)
              ELSE s4
        s6 == moveEnemies(s5, Len(s5.enemies))
        s7 == collisionCheck(s6, 1)
    IN  [s7 EXCEPT !.stripeOffset = @ + s7.speed]

(* update raising the speed whenever the score passes a multiple of 1000 *)
updateBodyCrossing(s, rnd) ==
    LET s1 == [s EXCEPT !.score = @ + scoreIncrement(s.speed)]
        s2 == IF s1.score \div scoreStep > s.score \div scoreStep
              THEN [s1 EXCEPT !.speed = @ + 1] ELSE s1
        s3 == [s2 EXCEPT !.player.x = laneCenter(s2, s2.player.lane)]
        s4 == [s3 EXCEPT !.spawnTimer = @ + 1]
        s5 == IF s4.spawnTimer >= spawnInterval
              THEN spawnEnemy([s4 EXCEPT !.spawnTimer = 0], rnd)
              ELSE s4
        s6 == moveEnemies(s5, Len(s5.enemies))
        s7 == collisionCheck(s6, 1)
    IN  [s7 EXCEPT !.stripeOffset = @ + s7.speed]

(* update spawning with `spawnTimer > spawnInterval` *)
updateBodySpawnLate(s, rnd) ==
    LET s1 == [s EXCEPT !.score = @ + scoreIncrement(s.speed)]
        s2 == IF s1.score % scoreStep = 0 THEN [s1 EXCEPT !.speed = @ + 1] ELSE s1
        s3 == [s2 EXCEPT !.player.x = laneCenter(s2, s2.player.lane)]
        s4 == [s3 EXCEPT !.spawnTimer = @ + 1]
        s5 == IF s4.spawnTimer > spawnInterval
              THEN spawnEnemy([s4 EXCEPT !.spawnTimer = 0], rnd)
              ELSE s4
        s6 == moveEnemies(s5, Len(s5.enemies))
        s7 == collisionCheck(s6, 1)
    IN  [s7 EXCEPT !.stripeOffset = @ + s7.speed]

(* update, past its `if (!running) return` *)
updateBody(s, rnd) ==
    LET s1 == [s EXCEPT !.score = @ + scoreIncrement(s.speed)]
        s2 == IF s1.score % scoreStep = 0 THEN [s1 EXCEPT !.speed = @ + 1] ELSE s1
        s3 == [s2 EXCEPT !.player.x = laneCenter(s2, s2.player.lane)]
        s4 == [s3 EXCEPT !.spawnTimer = @ + 1]
        s5 == IF s4.spawnTimer >= spawnInterval
              THEN spawnEnemy([s4 EXCEPT !.spawnTimer = 0], rnd)
              ELSE s4
        s6 == moveEnemies(s5, Len(s5.enemies))
        s7 == collisionCheck(s6, 1)
    IN  [s7 EXCEPT !.stripeOffset = @ + s7.speed]

update(s, rnd) == IF ~s.running THEN s ELSE updateBody(s, rnd)

(* gameLoop running the simulation step whether or not the game is running *)
gameLoopAlways(s, rnd) ==
    [updateBody(s, rnd) EXCEPT !.animationFrameId = TRUE, !.pendingFrames = @ + 1]

(* gameLoop requesting the next frame only while the game is running *)
gameLoopStopsWhenEnded(s, rnd) ==
    IF s.running
    THEN [update(s, rnd) EXCEPT !.animationFrameId = TRUE, !.pendingFrames = @ + 1]
    ELSE s

(* gameLoop scrolling the road stripes whether or not the game is running *)
gameLoopScrolls(s, rnd) ==
    LET s1 == IF s.running THEN update(s, rnd)
              ELSE [s EXCEPT !.stripeOffset = @ + s.speed]
    IN  [s1 EXCEPT !.animationFrameId = TRUE, !.pendingFrames = @ + 1]

gameLoop(s, rnd) ==
    LET s1 == IF s.running THEN update(s, rnd) ELSE s
    IN  [s1 EXCEPT !.animationFrameId = TRUE, !.pendingFrames = @ + 1]

(* resetGame with `enemies = []` left out *)
resetGameKeepsPool(s, rnd) ==
    LET s1 == [s EXCEPT !.score = 0, !.speed = baseSpeed,
                        !.spawnTimer = 0, !.stripeOffset = 0,
                        !.player.lane = centerLane, !.running = TRUE]
    IN  IF ~s1.animationFrameId THEN gameLoop(s1, rnd) ELSE s1

(* resetGame calling gameLoop without the `!animationFrameId` test *)
resetGameAlwaysLoops(s, rnd) ==
    LET s1 == [s EXCEPT !.score = 0, !.speed = baseSpeed, !.enemies = <<>>,
                        !.spawnTimer = 0, !.stripeOffset = 0,
                        !.player.lane = centerLane, !.running = TRUE]
    IN  gameLoop(s1, rnd)

(* resetGame recording the score of the session it abandons as a high score *)
resetGameKeepsRecord(s, rnd) ==
    LET s0 == IF s.score > s.highScore THEN [s EXCEPT !.highScore = s.score] ELSE s
        s1 == [s0 EXCEPT !.score = 0, !.speed = baseSpeed, !.enemies = <<>>,
                         !.spawnTimer = 0, !.stripeOffset = 0,
                         !.player.lane = centerLane, !.running = TRUE]
    IN  IF ~s1.animationFrameId THEN gameLoop(s1, rnd) ELSE s1

resetGame(s, rnd) ==
    LET s1 == [s EXCEPT !.score = 0, !.speed = baseSpeed, !.enemies = <<>>,
                        !.spawnTimer = 0, !.stripeOffset = 0,
                        !.player.lane = centerLane, !.running = TRUE]
    IN  IF ~s1.animationFrameId THEN gameLoop(s1, rnd) ELSE s1

----------------------------------------------------------------------------
(* Input *)

toLowerCase(k) == IF k = "A" THEN "a" ELSE IF k = "D" THEN "d" ELSE k

(* keydown with the Math.max / Math.min clamps left out *)
keydownUnclamped(s, key, t) ==
    IF t - s.lastMoveTime < minMoveInterval THEN s
    ELSE
    LET s1 == IF key = "ArrowLeft" \/ toLowerCase(key) = "a"
              THEN [s EXCEPT !.player.lane = @ - 1, !.lastMoveTime = t]
              ELSE s
    IN  IF key = "ArrowRight" \/ toLowerCase(key) = "d"
        THEN [s1 EXCEPT !.player.lane = @ + 1, !.lastMoveTime = t]
        ELSE s1

(* keydown with the debounce test left out *)
keydownNoDebounce(s, key, t) ==
    LET s1 == IF key = "ArrowLeft" \/ toLowerCase(key) = "a"
              THEN [s EXCEPT !.player.lane = Max(0, @ - 1), !.lastMoveTime = t]
              ELSE s
    IN  IF key = "ArrowRight" \/ toLowerCase(key) = "d"
        THEN [s1 EXCEPT !.player.lane = Min(lanes - 1, @ + 1), !.lastMoveTime = t]
        ELSE s1

(* keydown with an accepted move also resuming the game *)
keydownResumes(s, key, t) ==
    IF t - s.lastMoveTime < minMoveInterval THEN s
    ELSE
    LET s1 == IF key = "ArrowLeft" \/ toLowerCase(key) = "a"
              THEN [s EXCEPT !.player.lane = Max(0, @ - 1), !.lastMoveTime = t,
                             !.running = TRUE]
              ELSE s
    IN  IF key = "ArrowRight" \/ toLowerCase(key) = "d"
        THEN [s1 EXCEPT !.player.lane = Min(lanes - 1, @ + 1), !.lastMoveTime = t,
                        !.running = TRUE]
        ELSE s1

keydown(s, key, t) ==
    IF t - s.lastMoveTime < minMoveInterval THEN s
    ELSE
    LET s1 == IF key = "ArrowLeft" \/ toLowerCase(key) = "a"
              THEN [s EXCEPT !.player.lane = Max(0, @ - 1), !.lastMoveTime = t]
              ELSE s
    IN  IF key = "ArrowRight" \/ toLowerCase(key) = "d"
        THEN [s1 EXCEPT !.player.lane = Min(lanes - 1, @ + 1), !.lastMoveTime = t]
        ELSE s1

(* the 'toggle-fullscreen' handler of the main process, reached through
   electronAPI.toggleFullscreen: win.setFullScreen(!win.isFullScreen()) *)
toggleFullscreen(s) == [s EXCEPT !.fullscreen = ~@]

(* the DOMContentLoaded handler *)
domContentLoaded(s, win, rnd) ==
    LET s1 == IF s.api # "absent" THEN [s EXCEPT !.highScore = getHighScore(s)] ELSE s
    IN  resetGame(resizeCanvas(s1, win), rnd)

----------------------------------------------------------------------------
(* The state after the script has been evaluated *)
InitWith(apis, items) ==
    /\ running = FALSE /\ score = 0 /\ speed = baseSpeed /\ highScore = 0
    /\ animationFrameId = FALSE
    /\ \E c \in CanvasSizes :
          /\ W = c[1] /\ H = c[2]
          /\ laneWidth = c[1]                    \* W / lanes, in thirds
          /\ player = [ lane |-> 1, x |-> 3 * c[1], y |-> c[2] - 120,
                        w |-> 40, h |-> 70 ]
    /\ roadMargin = 40
    /\ enemyDefaultW = 40 /\ enemyDefaultH = 70
    /\ enemies = <<>> /\ spawnTimer = 0 /\ stripeOffset = 0
    /\ lastMoveTime = 0
    /\ pendingFrames = 0
    /\ api \in apis
    /\ stored \in (IF api = "ok" THEN items ELSE { <<>> })
    /\ now = 0
    /\ started = FALSE
    /\ endCalls = 0 /\ setCalls = <<>> /\ removed = <<>>
    /\ fullscreen = FALSE

Rnds(ls, os) == { [lane |-> l, off |-> o] : l \in ls, o \in os }

(* Math.random() is called only by a tick that spawns *)
Draws(s, ls, os) ==
    IF s.running /\ s.spawnTimer + 1 >= spawnInterval
    THEN Rnds(ls, os) ELSE { NoDraw }

Start(sizes) ==
    /\ ~started
    /\ \E win \in sizes : Becomes(domContentLoaded(St, win, NoDraw))
    /\ started' = TRUE
    /\ UNCHANGED now

(* one pending frame callback runs gameLoop *)
Tick(bound, ls, os) ==
    /\ pendingFrames > 0
    /\ score < bound
    /\ \E rnd \in Draws(St, ls, os) :
          Becomes(gameLoop([St EXCEPT !.pendingFrames = @ - 1], rnd))
    /\ UNCHANGED << now, started >>

(* a click on the restart button *)
Restart ==
    /\ started
    /\ Becomes(resetGame(St, NoDraw))
    /\ UNCHANGED << now, started >>

(* a resize event of the window *)
Resize ==
    /\ started
    /\ \E win \in WindowSizes : Becomes(resizeCanvas(St, win))
    /\ UNCHANGED << now, started >>

(* a keydown event of the document *)
Keydown(keys) ==
    /\ \E key \in keys : Becomes(keydown(St, key, now))
    /\ UNCHANGED << now, started >>

(* a click on the fullscreen button; its listener is registered only when the
   bridge is there.  The window changes size afterwards: a resize event. *)
ToggleFullscreen ==
    /\ started
    /\ api # "absent"
    /\ Becomes(toggleFullscreen(St))
    /\ UNCHANGED << now, started >>

(* time passes *)
ClockAdvance(steps) ==
    /\ \E d \in steps :
          /\ now + d <= MaxNow
          /\ now' = now + d
    /\ Becomes(St)
    /\ UNCHANGED started

Init == InitWith({"ok"}, { <<2, 8, 0>> })

TickPlay == Tick(MaxScore, RandLanes, RandOffsets)

Next ==
    \/ Start(WindowSizes)
    \/ TickPlay
    \/ Restart
    \/ Resize
    \/ Keydown(Keys)
    \/ ClockAdvance(ClockSteps)

Spec == Init /\ [][Next]_vars

(* Quiet sessions: nobody touches the keyboard or the window, and the random
   lanes never meet the player's lane, so a session runs long. *)
InitLong == InitWith({"ok", "failing", "absent"}, StoredAtLaunch)

TickLong == Tick(MaxLongScore, QuietRandLanes, QuietRandOffsets)

NextLong ==
    \/ Start(WindowSizes)
    \/ TickLong
    \/ Restart

SpecLong == InitLong /\ [][NextLong]_vars

(* Sessions up to the first speed increase, under every operation: the player
   keeps to the center and right lanes and the traffic to the left lane, so no
   session is cut short by a collision. *)
InitSession == InitWith({"ok"}, { <<>> })

TickSession == Tick(MaxSessionScore, SessionRandLanes, QuietRandOffsets)

NextSession ==
    \/ Start(WindowSizes)
    \/ TickSession
    \/ Restart
    \/ Resize
    \/ Keydown(SessionKeys)
    \/ ClockAdvance(ClockSteps)

SpecSession == InitSession /\ [][NextSession]_vars

(* Input timing: a fine clock, every key, short sessions. *)
TickInput == Tick(MaxInputScore, RandLanes, RandOffsets)

NextInput ==
    \/ Start(WindowSizes)
    \/ TickInput
    \/ Restart
    \/ Resize
    \/ Keydown(AllKeys)
    \/ ClockAdvance(FineClockSteps)

SpecInput == Init /\ [][NextInput]_vars

(* Two obstacles at once: the traffic keeps to the left lane, a window that is
   tall when an obstacle is spawned and small later, and a high score in the
   store that no session beats. *)
InitCrowd == InitWith({"ok"}, { <<9, 9, 9>> })

TickCrowd == Tick(MaxCrowdScore, SessionRandLanes, CrowdRandOffsets)

ResizeCrowd ==
    /\ started
    /\ \E win \in CrowdWindowSizes : Becomes(resizeCanvas(St, win))
    /\ UNCHANGED << now, started >>

NextCrowd ==
    \/ Start(CrowdWindowSizes)
    \/ TickCrowd
    \/ Restart
    \/ ResizeCrowd
    \/ Keydown(CrowdKeys)
    \/ ClockAdvance(ClockSteps)

SpecCrowd == InitCrowd /\ [][NextCrowd]_vars

(* The window: every operation, the fullscreen button included, over short
   sessions with a high score in the store that no session beats. *)
TickWindow == Tick(MaxWindowScore, RandLanes, EdgeRandOffsets)

NextWindow ==
    \/ Start(WindowSizes)
    \/ TickWindow
    \/ Restart
    \/ Resize
    \/ ToggleFullscreen
    \/ Keydown(CrowdKeys)
    \/ ClockAdvance(ClockSteps)

SpecWindow == InitCrowd /\ [][NextWindow]_vars

(* Pruning: the traffic keeps to the left lane and the player to the center,
   and the window goes from tall to small with obstacles far down the road. *)
TickPrune == Tick(MaxPruneScore, SessionRandLanes, QuietRandOffsets)

NextPrune ==
    \/ Start(CrowdWindowSizes)
    \/ TickPrune
    \/ Restart
    \/ ResizeCrowd

SpecPrune == InitCrowd /\ [][NextPrune]_vars

(* The store: the bridge is there, or absent, or its localStorage throws;
   short sessions that end in a collision. *)
TickStore == Tick(MaxStoreScore, RandLanes, QuietRandOffsets)

NextStore ==
    \/ Start(WindowSizes)
    \/ TickStore
    \/ Restart

SpecStore == InitLong /\ [][NextStore]_vars

----------------------------------------------------------------------------
(* Properties *)

(* C1: after any sequence of key events, ticks, restarts and resizes the
   player's lane is an integer in 0 .. lanes-1; a move-left at lane 0 and a
   move-right at lane lanes-1 leave it where it is. *)
C1_LaneInRange == player.lane \in 0 .. (lanes - 1)

(* Before the page has loaded nothing but key events touches the lane: two
   moves were accepted (at 150 and 300 ms) and the lane is 0, so the second was
   a move-left at lane 0. *)
C1_Witness == ~started /\ lastMoveTime = 300 /\ player.lane = 0

(* a restart request: the button, or the one the DOMContentLoaded handler makes *)
RestartRequest == Restart \/ Start(WindowSizes)

(* C2: score is non-decreasing while RUNNING and frozen once ENDED: apart from
   restart requests, no operation lowers score, and none changes it while
   running is false. *)
C2_ScoreMonotoneFrozen ==
    [][ RestartRequest
        \/ (score' >= score /\ (~running => score' = score)) ]_vars

(* the game has ended with a score and an operation without endGame (a tick, a
   key, a resize) has been taken since *)
C2_Witness == started /\ ~running /\ score > 0 /\ endCalls = 0 /\ pendingFrames = 1

(* C3: no tick, key event or resize lowers speed; only a restart request sets
   it back. *)
C3_SpeedNonDecreasing == [][ Restart \/ speed' >= speed ]_vars

(* the speed has been raised, and a lane change was accepted in that session *)
C3_Witness == speed > baseSpeed /\ player.lane = 2

(* C4: a tick taken while running adds floor(speed / 1.5) to score, with the
   speed held before the tick (speed is in fifths: floor(2 * speed / 15)); as
   long as speed is below 4.5 that is 2. *)
C4_ScoreIncrement ==
    [][ (TickLong /\ running) =>
          /\ score' = score + ((2 * speed) \div 15)
          /\ (speed = baseSpeed => score' = score + 2) ]_vars

(* the first tick after the speed reached 4.6 has added 3 *)
C4_Witness == score = 8003 /\ speed = 23 /\ running

(* C5: a lane-change key event is accepted only if at least minMoveInterval ms
   have passed since the last accepted one: lastMoveTime changes only to now
   and only then, and apart from restart requests the lane changes only in
   such a step, by one lane.  A rejected event changes nothing. *)
C5_Debounce ==
    [][ /\ lastMoveTime' # lastMoveTime =>
              /\ now - lastMoveTime >= minMoveInterval
              /\ lastMoveTime' = now
        /\ (player.lane' # player.lane /\ ~RestartRequest) =>
              /\ now - lastMoveTime >= minMoveInterval
              /\ lastMoveTime' = now
              /\ player.lane' - player.lane \in {-1, 1} ]_vars

(* a move into the center lane was accepted at 300 ms and it is now 50 ms
   later: a move-right delivered now has room to move and is rejected *)
C5_Witness == started /\ lastMoveTime = 300 /\ now = 350 /\ player.lane = 1

(* C6: a collision fires once: no operation invokes endGame twice; endGame is
   invoked only by a step that finds running true and leaves it false; a tick
   taken while running that leaves an obstacle overlapping the player has
   invoked it; nothing invokes it while running is false; and the restart that
   follows sets score to 0 and running to true. *)
C6_CollisionOnce ==
    [][ /\ endCalls' <= 1
        /\ endCalls' = 1 => (running /\ ~running')
        /\ ~running => endCalls' = 0
        /\ (TickCrowd /\ running
              /\ \E i \in 1 .. Len(enemies') : Overlaps(player', enemies'[i]))
           => (endCalls' = 1 /\ ~running')
        /\ (started /\ ~running /\ running') => score' = 0 ]_vars

(* the tick that found the collision, with two obstacles overlapping the
   player *)
C6_Witness ==
    /\ endCalls = 1 /\ ~running /\ score > 0
    /\ \E i, j \in 1 .. Len(enemies) :
          /\ i < j
          /\ Overlaps(player, enemies[i])
          /\ Overlaps(player, enemies[j])

(* the simulation state of a program state *)
Sim(s) ==
    [ score |-> s.score, speed |-> s.speed, enemies |-> s.enemies,
      spawnTimer |-> s.spawnTimer, stripeOffset |-> s.stripeOffset,
      lane |-> s.player.lane, running |-> s.running ]

(* C7 as claimed: from any state, never started included, restart twice in
   immediate succession yields the simulation state of restart once. *)
C7_Original ==
    LET once  == resetGame(St, NoDraw)
        twice == resetGame(once, NoDraw)
    IN  Sim(twice) = Sim(once)

(* C7: once the tick loop has been started, restart twice in immediate
   succession yields the simulation state of restart once, and that state
   holds nothing of the prior session: no obstacle and no score. *)
C7_RestartIdempotent ==
    animationFrameId =>
        LET once  == resetGame(St, NoDraw)
            twice == resetGame(once, NoDraw)
        IN  /\ Sim(twice) = Sim(once)
            /\ once.enemies = <<>>
            /\ once.score = 0

(* a prior state that is ENDED, with an obstacle in the pool and a score *)
C7_Witness == animationFrameId /\ ~running /\ enemies # <<>> /\ score > 0

(* C8 as claimed: whatever the prior state, the very first start included, a
   restart request returns with score 0, speed 3, an empty pool, spawnTimer 0,
   stripeOffset 0, the player in the center lane, running true and the high
   score as it was. *)
C8_Original ==
    LET r == resetGame(St, NoDraw)
    IN  /\ r.score = 0 /\ r.speed = baseSpeed /\ r.enemies = <<>>
        /\ r.spawnTimer = 0 /\ r.stripeOffset = 0
        /\ r.player.lane = centerLane /\ r.running
        /\ r.highScore = highScore

(* C8: a restart request made once the tick loop runs returns with score 0,
   speed 3, an empty pool, spawnTimer 0, stripeOffset 0, the player in the
   center lane, running true and the high score as it was; the very first one
   (made by the DOMContentLoaded handler, after it has loaded the high score)
   has also run one update: score 2, spawnTimer 1, stripeOffset 3. *)
C8_RestartResets ==
    [][ /\ Restart =>
              /\ score' = 0 /\ spawnTimer' = 0 /\ stripeOffset' = 0
              /\ speed' = 15 /\ enemies' = <<>> /\ player'.lane = 1 /\ running'
              /\ highScore' = highScore
        /\ Start(WindowSizes) =>
              /\ score' = 2 /\ spawnTimer' = 1 /\ stripeOffset' = 15
              /\ speed' = 15 /\ enemies' = <<>> /\ player'.lane = 1 /\ running'
              /\ highScore' = (IF api = "absent" THEN highScore
                               ELSE getHighScore(St)) ]_vars

(* just restarted, after a session that ended with a new high score *)
C8_Witness ==
    started /\ running /\ score = 0 /\ spawnTimer = 0 /\ highScore = 282

(* ticks an obstacle spawned at bornY under bornSpeed stays in the pool when
   the bottom bound is `limit` (y and speed in fifths): the largest n with
   bornY + n * (speed + 1) <= limit *)
TicksWithin(e, limit) == (5 * limit - e.bornY) \div (e.bornSpeed + 5)

(* C9 as claimed: an obstacle spawned at y = -70 has been removed after
   ceil((70 + 100) / (speed + 1)) running ticks at constant speed. *)
C9_Original ==
    \A i \in 1 .. Len(enemies) :
        LET e == enemies[i]
        IN  (e.bornY = -350 /\ e.steady) =>
                e.age * (e.bornSpeed + 5) < 5 * (70 + 100)

(* C9: with H and speed constant over its life, an obstacle spawned at y0 is
   removed by the first tick that carries its y above H + 100, which is tick
   floor((H + 100 - y0) / (speed + 1)) + 1 of its life (the tick that spawns it
   is the first), and by no earlier tick. *)
C9_RemovedOffScreen ==
    /\ \A i \in 1 .. Len(enemies) :
          enemies[i].steady =>
              enemies[i].age <= TicksWithin(enemies[i], H + offScreenMargin)
    /\ \A i \in 1 .. Len(removed) :
          removed[i].steady =>
              removed[i].age = TicksWithin(removed[i], H + offScreenMargin) + 1

(* under H = 585 an obstacle spawned at y = -70 has just been removed, by tick
   floor(755 / 4) + 1 = 189 of its life *)
C9_Witness ==
    /\ removed # <<>> /\ removed[1].bornY = -350 /\ removed[1].steady
    /\ removed[1].age = 189 /\ H = 585

(* C10: endGame sets running to false; if score is greater than the high
   score, the high score becomes the score and, the collaborator being there,
   setHighScore is asked once, with that value (which a working store then
   holds as a string); otherwise the high score stays and nothing is asked. *)
C10_EndGame ==
    [][ endCalls' = 1 =>
          /\ ~running'
          /\ IF score' > highScore
             THEN /\ highScore' = score'
                  /\ setCalls' = (IF api = "absent" THEN <<>> ELSE << score' >>)
                  /\ api = "ok" => parseInt(stored') = score'
             ELSE /\ highScore' = highScore
                  /\ setCalls' = <<>>
                  /\ stored' = stored ]_vars

(* a game has just ended with score 282 over the high score 280 *)
C10_Witness ==
    /\ endCalls = 1 /\ ~running /\ score = 282 /\ highScore = 282
    /\ setCalls = << 282 >> /\ stored = << 2, 8, 2 >>

(* C11: the lifecycle has two states.  running goes from true to false only in
   a tick that invokes endGame and leaves an obstacle overlapping the player,
   and from false to true only in a restart request (the button, or the one of
   the DOMContentLoaded handler); a key event, a resize, a fullscreen toggle
   and a tick taken while ENDED leave running as it is. *)
C11_Lifecycle ==
    [][ /\ (running /\ ~running') =>
              /\ TickWindow
              /\ endCalls' = 1
              /\ \E i \in 1 .. Len(enemies') : Overlaps(player', enemies'[i])
        /\ (~running /\ running') => RestartRequest
        /\ (Keydown(CrowdKeys) \/ Resize \/ ToggleFullscreen) => running' = running
        /\ (TickWindow /\ ~running) => ~running' ]_vars

(* a collision has just ended a session played in fullscreen after a lane
   change *)
C11_Witness ==
    started /\ ~running /\ endCalls = 1 /\ fullscreen /\ lastMoveTime > 0

(* C12: a tick taken while running raises speed, once and by 0.2 (1 in
   fifths), if and only if the score it leaves is a multiple of 1000; a tick
   that carries score from below a multiple of 1000 to above it leaves speed
   as it was. *)
C12_SpeedAtThreshold ==
    [][ (TickLong /\ running) =>
          /\ speed' = (IF score' % scoreStep = 0 THEN speed + 1 ELSE speed)
          /\ (score' % scoreStep # 0 /\ score' \div scoreStep > score \div scoreStep)
                => speed' = speed ]_vars

(* the tick from 8999 has carried score over 9000 and speed is still 4.6 *)
C12_Witness == running /\ score = 9002 /\ speed = 23

(* C13: in a session started by a restart request that runs without collision
   the threshold 9000 never triggers: score, growing by 3 from 8000 on, is never
   9000; the tick that passes 9000 finds speed at 4.6, the value set at 8000,
   and leaves it there. *)
C13_ThresholdSkipped ==
    [][ /\ score' # 9 * scoreStep
        /\ (score < 9 * scoreStep /\ score' > 9 * scoreStep) =>
              (speed = 23 /\ speed' = 23 /\ scoreIncrement(speed) = 3) ]_vars

(* past 9000 with the speed of threshold 8000, in a session begun by the
   restart button *)
C13_Witness ==
    /\ running /\ score = 9005 /\ speed = baseSpeed + 8
    /\ enemies # <<>> /\ enemies[1].bornSpeed = speed

(* C14: spawnTimer stays in 0 .. 89 between ticks.  A tick taken while running
   adds one to it, or sets it to 0 when that makes 90, and then, and only then,
   creates one obstacle, which is every 90th running tick of a session (at
   speed 3 the score is twice the number of running ticks); the obstacle is
   appended to the pool with a lane in 0 .. lanes-1, the x of its lane and a y
   of at most -h at its creation.  A tick taken while ENDED leaves spawnTimer
   and the pool alone. *)
C14_Spawner ==
    [][ /\ spawnTimer' \in 0 .. (spawnInterval - 1)
        /\ (TickPlay /\ running) =>
              LET spawns == (spawnTimer + 1 = spawnInterval)
                  n      == Len(enemies')
              IN  /\ spawnTimer' = (IF spawns THEN 0 ELSE spawnTimer + 1)
                  /\ spawns <=> (score' % (2 * spawnInterval) = 0)
                  /\ n + Len(removed') = Len(enemies) + (IF spawns THEN 1 ELSE 0)
                  /\ spawns =>
                        /\ n > 0 /\ enemies'[n].age = 1
                        /\ enemies'[n].lane \in 0 .. (lanes - 1)
                        /\ enemies'[n].x = laneCenter(St, enemies'[n].lane)
                        /\ enemies'[n].bornY <= -(5 * enemies'[n].h)
                        /\ enemies'[n].y = enemies'[n].bornY + speed' + 5
                  /\ ~spawns => \A i \in 1 .. n : enemies'[i].age > 1
        /\ (TickPlay /\ ~running) =>
              (spawnTimer' = spawnTimer /\ enemies' = enemies) ]_vars

(* the 90th running tick of a session has just created an obstacle in the
   right lane, 1.2 above -h *)
C14_Witness ==
    /\ running /\ spawnTimer = 0 /\ score = 2 * spawnInterval
    /\ Len(enemies) = 1 /\ enemies[1].age = 1 /\ enemies[1].lane = 2
    /\ enemies[1].bornY = -(5 * enemies[1].h) - 30

(* enemy f is enemy e after one pass of the enemy loop under speed sp *)
MovedOnce(e, f, sp) ==
    /\ f.lane = e.lane /\ f.bornY = e.bornY /\ f.w = e.w /\ f.h = e.h
    /\ f.age = e.age + 1
    /\ f.y = e.y + sp + 5

(* C15: after a tick taken while running the pool holds no obstacle with
   y > H + 100; every obstacle of the pool before the tick, advanced once by
   speed + 1 (the speed the tick leaves), is in the pool once if that y is at
   most H + 100 and has been removed once if it is not; the pool holds nothing
   else but the obstacle spawned in the tick; also when two obstacles next to
   each other in the pool go off-screen in the same tick. *)
C15_Pruning ==
    [][ (TickPrune /\ running) =>
          LET lim == 5 * (H + offScreenMargin)
              In(e, es) == { j \in 1 .. Len(es) : MovedOnce(e, es[j], speed') }
          IN  /\ \A j \in 1 .. Len(enemies') : enemies'[j].y <= lim
              /\ \A i \in 1 .. Len(enemies) :
                    IF enemies[i].y + speed' + 5 <= lim
                    THEN /\ Cardinality(In(enemies[i], enemies')) = 1
                         /\ In(enemies[i], removed') = {}
                    ELSE /\ In(enemies[i], enemies') = {}
                         /\ Cardinality(In(enemies[i], removed')) = 1
              /\ \A j \in 1 .. Len(enemies') :
                    \/ enemies'[j].age = 1 /\ j = Len(enemies')
                    \/ \E i \in 1 .. Len(enemies) :
                          MovedOnce(enemies[i], enemies'[j], speed')
              /\ \A j \in 1 .. Len(removed') :
                    \E i \in 1 .. Len(enemies) :
                        MovedOnce(enemies[i], removed'[j], speed') ]_vars

(* one tick has removed two obstacles and kept the third *)
C15_Witness ==
    /\ running /\ Len(removed) = 2 /\ Len(enemies) = 1
    /\ enemies[1].age > 1

(* the boxes of player p and obstacle e, as <<left, right>> in twelfths and
   <<top, bottom>> in tenths of a pixel: top-left corner = center - size / 2 *)
BoxX(c) == << 2 * c.x - 6 * c.w, 2 * c.x + 6 * c.w >>
PlayerBoxY(p) == << 10 * p.y - 5 * p.h, 10 * p.y + 5 * p.h >>
EnemyBoxY(e) == << 2 * e.y - 5 * e.h, 2 * e.y + 5 * e.h >>

(* the boxes share interior points *)
Intersect(p, e) ==
    /\ BoxX(p)[1] < BoxX(e)[2] /\ BoxX(p)[2] > BoxX(e)[1]
    /\ PlayerBoxY(p)[1] < EnemyBoxY(e)[2] /\ PlayerBoxY(p)[2] > EnemyBoxY(e)[1]

(* the boxes meet on an edge and share no interior point *)
Touch(p, e) ==
    /\ ~Intersect(p, e)
    /\ BoxX(p)[1] <= BoxX(e)[2] /\ BoxX(p)[2] >= BoxX(e)[1]
    /\ PlayerBoxY(p)[1] <= EnemyBoxY(e)[2] /\ PlayerBoxY(p)[2] >= EnemyBoxY(e)[1]

(* C16: a tick taken while running invokes endGame (once, leaving running
   false) if and only if, after the obstacles have been moved and pruned, the
   box of some obstacle of the pool and the box of the player share interior
   points; an obstacle whose box only touches the player's on an edge does not
   end the game. *)
C16_Collision ==
    [][ ((TickWindow \/ TickCrowd) /\ running) =>
          LET hit == \E i \in 1 .. Len(enemies') : Intersect(player', enemies'[i])
          IN  /\ endCalls' = (IF hit THEN 1 ELSE 0)
              /\ running' = ~hit
              /\ \A i \in 1 .. Len(enemies') :
                    Intersect(player', enemies'[i]) <=> Overlaps(player', enemies'[i]) ]_vars

(* the game runs on with an obstacle in the player's lane whose bottom edge is
   on the player's top edge *)
C16_Witness ==
    /\ running /\ H = 240 /\ score = 278
    /\ \E i \in 1 .. Len(enemies) :
          /\ Touch(player, enemies[i])
          /\ enemies[i].lane = player.lane
          /\ enemies[i].age = 50 /\ enemies[i].steady

(* gameLoop leaves the simulation state of the program as it is *)
PureRender(rnd) ==
    LET r == gameLoop(St, rnd)
    IN  /\ r.speed = speed /\ r.score = score /\ r.highScore = highScore
        /\ r.enemies = enemies /\ r.player = player
        /\ r.spawnTimer = spawnTimer /\ r.stripeOffset = stripeOffset
        /\ ~r.running /\ r.endCalls = 0 /\ r.setCalls = <<>> /\ r.removed = <<>>
        /\ r.stored = stored

(* C17: in every ENDED state a tick, whatever it would draw, is a pure render:
   it leaves speed, score, high score, the pool with every obstacle's lane, x
   and y, the player, spawnTimer and stripeOffset as they are and asks nothing
   of the store, so the frame stays frozen over any number of ticks; only a
   restart request changes score, speed or the pool while ENDED.  In the tick
   that finds the collision the score has grown by the one increment made
   before it, and every obstacle has been moved once. *)
C17_EndedFrozen ==
    /\ []((started /\ ~running) =>
            \A rnd \in Rnds(RandLanes, RandOffsets) : PureRender(rnd))
    /\ [][ /\ (~running /\ ~RestartRequest) =>
                /\ UNCHANGED << score, speed, highScore, spawnTimer, stripeOffset >>
                /\ Len(enemies') = Len(enemies)
                /\ \A i \in 1 .. Len(enemies) :
                      /\ enemies'[i].lane = enemies[i].lane
                      /\ enemies'[i].y = enemies[i].y
                      /\ (TickPlay => enemies'[i].x = enemies[i].x)
          /\ (TickPlay /\ running /\ endCalls' = 1) =>
                /\ score' = score + scoreIncrement(speed)
                /\ stripeOffset' = stripeOffset + speed'
                /\ \A j \in 1 .. Len(enemies') :
                      \/ enemies'[j].age = 1
                      \/ \E i \in 1 .. Len(enemies) :
                            MovedOnce(enemies[i], enemies'[j], speed') ]_vars

(* ENDED, the obstacle that was hit still on the player, and a frame callback
   pending after the step that followed the collision *)
C17_Witness ==
    /\ started /\ ~running /\ endCalls = 0 /\ pendingFrames = 1
    /\ enemies # <<>> /\ Overlaps(player, enemies[1])
    /\ stripeOffset = 15 * (score \div 2)

(* C18: there is one tick loop.  Before the DOMContentLoaded handler has made
   the first restart request no frame callback is pending; from then on, after
   every operation (tick while RUNNING or ENDED, restart, key event, resize),
   exactly one is pending and animationFrameId is set, so that no restart
   starts a second loop and the loop goes on while ENDED. *)
C18_OneLoop ==
    /\ animationFrameId <=> started
    /\ pendingFrames = (IF started THEN 1 ELSE 0)

(* a second session, begun by a restart after a collision, is at its 90th
   tick with one callback pending *)
C18_Witness ==
    /\ running /\ pendingFrames = 1 /\ animationFrameId
    /\ highScore = 282 /\ score = 2 * spawnInterval /\ enemies # <<>>

(* the x of car c is the center of its lane under the layout of the state *)
Centered(c) == c.x = laneCenter(St, c.lane)

(* the boxes overlap vertically *)
SameHeight(p, e) ==
    PlayerBoxY(p)[1] < EnemyBoxY(e)[2] /\ PlayerBoxY(p)[2] > EnemyBoxY(e)[1]

(* C19: a resize leaves score, speed, spawnTimer, running, the lane of the
   player, and the pool with every obstacle's lane and y as they are, and puts
   every x on the center of its lane under the new layout.  A tick taken while
   running leaves the lanes as they are and makes its collision test with the
   x of the player and of every obstacle on the center of its lane under the
   current layout: the game ends if and only if an obstacle in the lane the
   player had before the tick overlaps the player vertically. *)
C19_LaneAuthoritative ==
    [][ /\ Resize =>
              /\ UNCHANGED << score, speed, spawnTimer, running, stripeOffset >>
              /\ player'.lane = player.lane
              /\ Len(enemies') = Len(enemies)
              /\ \A i \in 1 .. Len(enemies) :
                    /\ enemies'[i].lane = enemies[i].lane
                    /\ enemies'[i].y = enemies[i].y
                    /\ Centered(enemies[i])'
              /\ Centered(player)'
        /\ (TickWindow /\ running) =>
              /\ UNCHANGED << W, H, laneWidth, roadMargin >>
              /\ player'.lane = player.lane
              /\ Centered(player)'
              /\ \A i \in 1 .. Len(enemies') : Centered(enemies[i])'
              /\ endCalls' = 1 <=>
                    \E i \in 1 .. Len(enemies') :
                        /\ enemies'[i].lane = player.lane
                        /\ SameHeight(player', enemies'[i]) ]_vars

(* a collision in the left lane under the small layout, with an obstacle
   spawned under the large one: a lane change and a resize came before the
   tick *)
C19_Witness ==
    /\ endCalls = 1 /\ ~running /\ H = 240 /\ player.lane = 0
    /\ \E i \in 1 .. Len(enemies) :
          /\ enemies[i].bornH = 585 /\ enemies[i].lane = 0
          /\ Overlaps(player, enemies[i])

(* C20: with the bridge absent, or its localStorage throwing, the
   DOMContentLoaded handler starts the game with high score 0, and a tick that
   finds a collision completes: running is false, the high score is the score
   if the score exceeds it and stays otherwise, the rest of the tick is done
   (stripes moved, next frame requested), and the store holds nothing.  An
   absent bridge is asked nothing; a failing one is asked and its failure
   stays inside it. *)
C20_StoreFailure ==
    [][ api # "ok" =>
          /\ Start(WindowSizes) => (highScore' = 0 /\ running' /\ pendingFrames' = 1)
          /\ endCalls' = 1 =>
                /\ ~running'
                /\ highScore' = (IF score' > highScore THEN score' ELSE highScore)
                /\ stripeOffset' = stripeOffset + speed'
                /\ pendingFrames' = 1
                /\ setCalls' = (IF api = "failing" /\ score' > highScore
                                THEN << score' >> ELSE <<>>)
          /\ stored' = <<>> /\ api' = api ]_vars

(* a game has just ended with a new high score that the failing store was
   asked to keep and did not *)
C20_Witness ==
    /\ api = "failing" /\ endCalls = 1 /\ ~running
    /\ score > 0 /\ highScore = score /\ setCalls = << score >> /\ stored = <<>>

(* what C21 says of every step but the change of the high score: it never
   decreases, it is at least the score whenever running is false, and a
   restart made while RUNNING leaves it and the store alone and asks nothing
   of the bridge *)
HighScoreKept ==
    /\ highScore' >= highScore
    /\ ~running' => highScore' >= score'
    /\ (Restart /\ running) =>
          (highScore' = highScore /\ setCalls' = <<>> /\ stored' = stored)

(* C21 as claimed: the high score changes only in a step that invokes
   endGame. *)
C21_Original ==
    [][ /\ highScore' # highScore => endCalls' = 1
        /\ HighScoreKept ]_vars

(* C21: the high score changes only in a step that invokes endGame, where it
   becomes the score, or in the DOMContentLoaded handler, which loads it from
   the store before the first session; it never decreases; it is at least the
   score in every state where running is false; and a restart made while
   RUNNING leaves it and the store as they are and asks nothing of the
   bridge, whatever the score. *)
C21_HighScore ==
    /\ [](~running => highScore >= score)
    /\ [][ /\ highScore' # highScore =>
                \/ endCalls' = 1 /\ highScore' = score'
                \/ ~started /\ started' /\ api = "ok" /\ highScore' = parseInt(stored)
          /\ HighScoreKept ]_vars

(* with nothing in the store and no game ended, a restart has abandoned a
   running session, whose score was above the high score 0, and the high
   score is still 0 *)
C21_Witness ==
    /\ started /\ running /\ score = 0 /\ spawnTimer = 0
    /\ api = "ok" /\ stored = <<>> /\ highScore = 0 /\ setCalls = <<>>

====
